---- MODULE Spec2Model ----
(***************************************************************************)
(* Model of the stdio JSON-RPC client of simple-mcp (src/client.py; the    *)
(* same class is repeated in src/openai-client.py).                        *)
(*                                                                         *)
(* One MCPCalculatorClient object, the child process it spawns, and the    *)
(* asyncio tasks that run against it: the task running main(), and a       *)
(* caller task that invokes the public coroutine call_tool.  A task runs   *)
(* from one await to the next without interruption; the child is a black   *)
(* box that answers the requests on its stdin in order, late, or never,    *)
(* and may exit.                                                           *)
(*                                                                         *)
(* Spec is the whole program from the start of main.  LiveSpec adds what   *)
(* the event loop guarantees.  CallSpec and WireSpec start from a client   *)
(* whose handshake went well and call call_tool over wider sets of names   *)
(* and arguments; WireSpec spells text out character by character and      *)
(* follows json.dumps and json.loads over it.                              *)
(***************************************************************************)
EXTENDS Integers, Sequences, FiniteSets, TLC

\* ---------------------------------------------------------------- bounds
MaxCalls == 2          \* call_tool invocations per run

\* ------------------------------------------------------- program constants
InitId  == 1           \* "id": 1 of the initialize request
ListId  == 2           \* "id": 2 of the tools/list request
CallId  == 3           \* "id": 3 of every tools/call request

Main    == "main"
Callers == {"caller"}
Tasks   == {Main} \cup Callers
NoTask  == "none"

ToolNames == {"add"}
\* an arguments mapping, as the sequence of its items
Args(a, b) == <<<<"a", a>>, <<"b", b>>>>
Arguments == {Args(2, 3)}
\* tool names and arguments of the calls made on a connected client
CallNames == {"add", "divide"}
CallArguments == {Args(2, 3), Args(7, 0)}
Texts     == {"5", "7"}
\* ways the child exits on its own: <<status, bytes left on stderr>>
ChildExits == {<<0, "">>, <<1, "bind failed">>}
\* status of a child ended by terminate(): -SIGTERM
Terminated == -15

\* tools/list payloads the child serves in this model
Tool(n, d) == [name |-> n, description |-> d]
ServedToolLists ==
  { <<Tool("add", "Add two numbers")>>,
    <<Tool("add", "Add two numbers"), Tool("subtract", "Subtract b from a"),
      Tool("add", "Add again")>> }

\* What a line on the child's stdout holds, as far as the client looks:
\*   text      {"id":i,"result":{"content":[{"text":T}]}}
\*   empty     {"id":i,"result":{"content":[]}}
\*   nocontent {"id":i,"result":{...no content, no tools...}}
\*   tools     {"id":i,"result":{"tools":L}}
\*   scalar    {"id":i,"result":null}
\*   error     {"id":i,"error":{...}}
\*   garbage   a line json.loads rejects
Body(s, t, l) == [shape |-> s, text |-> t, tools |-> l]
Bodies ==
  {Body(s, "", <<>>) : s \in {"empty", "nocontent", "scalar", "error", "garbage"}}
  \cup {Body("text", t, <<>>) : t \in Texts}
  \cup {Body("tools", "", l) : l \in ServedToolLists}

\* a line read: the id it carries, the request (index in written) it answers,
\* and its body
Line(i, r, b) == [id |-> i, req |-> r, shape |-> b.shape, text |-> b.text, tools |-> b.tools]
NoLine == Line(0, 0, Body("none", "", <<>>))

VARIABLES
  server_process,  \* self.server_process: "None" or "proc"
  tools,           \* self.tools, a dict kept as the sequence of its items
  child,           \* the child process: "none", "running", "exited"
  exitcode,        \* status the child exited with
  errbytes,        \* what the child wrote to its stderr
  returncode,      \* server_process.returncode as asyncio knows it: <<>> (None) or <<code>>
  termSent,        \* terminate() has signalled the child
  written,         \* request lines written to the child's stdin, in order
  pending,         \* indices in written the child has not answered yet
  stdout,          \* lines on the child's stdout not read yet: <<id, request answered>>
  stdin_lost,      \* the stdin transport has seen the pipe break (connection lost)
  waiter,          \* the task suspended in stdout.readline(), or NoTask
  pc,              \* position of every task
  ctx,             \* method of the request a task is sending
  req,             \* index in written of the request a task is sending (0: none)
  ret,             \* what _send_request gave the task: [kind, line]
  result,          \* outcome of the task's last call_tool
  arguments,       \* tool_name and arguments of the task's current call_tool
  hs,              \* how the handshake's _send_request calls ended, in order
  printed,         \* what main printed about the session
  cleaned,         \* main's finally clause has called cleanup()
  calls,           \* call_tool invocations so far
  overlapped       \* a request was written while another task awaited a response

vars == <<server_process, tools, child, exitcode, errbytes, returncode, termSent,
          written, pending, stdout, stdin_lost, waiter, pc, ctx, req, ret, result,
          arguments, hs, printed, cleaned, calls, overlapped>>

childVars == <<child, exitcode, errbytes, returncode, termSent>>
pipeVars  == <<written, pending, stdout, stdin_lost, waiter>>
taskVars  == <<pc, ctx, req, ret>>
mainVars  == <<hs, printed, cleaned>>

\* ------------------------------------------------------------ helpers
Ret(k, l) == [kind |-> k, line |-> l]
NoRet == Ret("none", NoLine)

\* outcome of call_tool: returned or raised, the value or exception, and the
\* way its _send_request had ended
Res(k, t) == [kind |-> k, text |-> t]
Outcome(r, w) == [kind |-> r.kind, text |-> r.text, why |-> w]
NoRes == Outcome(Res("none", ""), "none")

Sentinel == "Error calling tool"

\* the parameters of a call_tool invocation
Call(n, a) == [tool_name |-> n, arguments |-> a]
NoCall == Call("", <<>>)

\* the value _send_request returns: the parsed mapping, or Empty for {}
Empty == NoLine
Returned(r) == IF r.kind = "line" THEN r.line ELSE Empty

\* `response and "result" in response`
HasResult(resp) == resp.shape \in {"text", "empty", "nocontent", "tools", "scalar"}

Init ==
  /\ server_process = "None"
  /\ tools = <<>>
  /\ child = "none"
  /\ exitcode = 0
  /\ errbytes = ""
  /\ returncode = <<>>
  /\ termSent = FALSE
  /\ written = <<>>
  /\ pending = <<>>
  /\ stdout = <<>>
  /\ stdin_lost = FALSE
  /\ waiter = NoTask
  /\ pc = [t \in Tasks |-> IF t = Main THEN "m_start" ELSE "idle"]
  /\ ctx = [t \in Tasks |-> ""]
  /\ req = [t \in Tasks |-> 0]
  /\ ret = [t \in Tasks |-> NoRet]
  /\ result = [t \in Tasks |-> NoRes]
  /\ arguments = [t \in Tasks |-> NoCall]
  /\ hs = <<>>
  /\ printed = <<>>
  /\ cleaned = FALSE
  /\ calls = 0
  /\ overlapped = FALSE

\* asyncio runs a task from one await to the next without interruption: while
\* a task has come back from _send_request and has not reached its next
\* await, nothing else is scheduled.
Running(t) == pc[t] \in {"sr_ret", "m_init"}
Quiet == \A t \in Tasks : ~Running(t)

\* ------------------------------------------------------- the child process
\* The child answers the oldest request it has not answered yet with one line
\* that echoes the request's id (JSON-RPC), once it has read the request in
\* full.  The rest of the line is seen by nobody before it is read, so the
\* model draws it when the line is read.
ChildRespond ==
  /\ Quiet
  /\ child = "running"
  /\ pending # <<>>
  /\ \A u \in Tasks : pc[u] = "sr_drain" => req[u] # Head(pending)
  /\ stdout' = Append(stdout, <<written[Head(pending)].id, Head(pending)>>)
  /\ pending' = Tail(pending)
  /\ UNCHANGED <<server_process, tools, childVars, written, stdin_lost, waiter,
                 taskVars, result, arguments, mainVars, calls, overlapped>>

\* The child exits on its own with status c, leaving e on its stderr.
ChildExit(c, e) ==
  /\ Quiet
  /\ child = "running"
  /\ ~termSent
  /\ child' = "exited"
  /\ exitcode' = c
  /\ errbytes' = e
  /\ UNCHANGED <<server_process, tools, returncode, termSent, pipeVars, taskVars,
                 result, arguments, mainVars, calls, overlapped>>

\* The child dies of the SIGTERM that terminate() sent.
ChildTerminated ==
  /\ Quiet
  /\ child = "running"
  /\ termSent
  /\ child' = "exited"
  /\ exitcode' = Terminated
  /\ UNCHANGED <<server_process, tools, errbytes, returncode, termSent, pipeVars,
                 taskVars, result, arguments, mainVars, calls, overlapped>>

\* asyncio's child watcher reports the exit to the event loop: only from here
\* on is server_process.returncode not None.
ExitNoticed ==
  /\ Quiet
  /\ child = "exited"
  /\ returncode = <<>>
  /\ returncode' = <<exitcode>>
  /\ UNCHANGED <<server_process, tools, child, exitcode, errbytes, termSent, pipeVars,
                 taskVars, result, arguments, mainVars, calls, overlapped>>

\* ------------------------------------------------------------ _send_request
\* some task is suspended waiting for the response to its request
Awaited == \E u \in Tasks : pc[u] = "sr_wait"

\* a request: id, method, and of the params what the model follows (name and
\* arguments of a tools/call)
Request(i, m, n, a) == [id |-> i, method |-> m, name |-> n, arguments |-> a]

\* client.py 57: json.loads of the line read; a line json.loads rejects raises,
\* and `except Exception` returns {}.
Parse(line) == IF line.shape = "garbage" THEN Ret("parse_error", line) ELSE Ret("line", line)

\* _send_request returns r to task t
Return(t, r) ==
  /\ ret' = [ret EXCEPT ![t] = r]
  /\ pc' = [pc EXCEPT ![t] = "sr_ret"]

\* the head of stdout is taken as the line read, with body b
TakeLine(t, b) ==
  /\ stdout # <<>>
  /\ stdout' = Tail(stdout)
  /\ Return(t, Parse(Line(Head(stdout)[1], Head(stdout)[2], b)))

\* client.py 56: the entry into stdout.readline() under wait_for: a complete
\* line in the buffer is returned at once; at end of stream b'' is; with
\* another task suspended in readline the StreamReader raises RuntimeError;
\* otherwise the task suspends.
readline(t) ==
  \/ /\ \E b \in Bodies : TakeLine(t, b)
     /\ UNCHANGED waiter
  \/ /\ stdout = <<>>
     /\ child = "exited"
     /\ Return(t, Ret("eof", NoLine))
     /\ UNCHANGED <<stdout, waiter>>
  \/ /\ stdout = <<>>
     /\ child = "running"
     /\ waiter # NoTask
     /\ Return(t, Ret("busy", NoLine))
     /\ UNCHANGED <<stdout, waiter>>
  \/ /\ stdout = <<>>
     /\ child = "running"
     /\ waiter = NoTask
     /\ waiter' = t
     /\ pc' = [pc EXCEPT ![t] = "sr_wait"]
     /\ ret' = [ret EXCEPT ![t] = NoRet]
     /\ UNCHANGED stdout

\* some task is suspended in stdin.drain(): the transport's write buffer is
\* above its high-water mark and writing is paused
Draining == \E u \in Tasks : pc[u] = "sr_drain"

\* client.py 49-56: the guard, json.dumps + stdin.write + drain, and the entry
\* into stdout.readline() under wait_for.
\*  - no process: {} at once.
\*  - once the child has exited, a write is either taken by the pipe (and
\*    never answered) or the transport sees the broken pipe: then drain raises,
\*    now and in every later call, and `except Exception` turns it into {}.
\*  - drain returns at once while the write buffer is below its high-water
\*    mark.  It suspends, outside wait_for, when the child does not read its
\*    stdin and the request does not fit the pipe (the arguments of a
\*    tools/call have any size), or when writing is already paused.
send_request(t, rq) ==
  /\ ctx' = [ctx EXCEPT ![t] = rq.method]
  /\ IF server_process = "None"
     THEN /\ Return(t, Ret("noproc", NoLine))
          /\ req' = [req EXCEPT ![t] = 0]
          /\ UNCHANGED <<pipeVars, overlapped>>
     ELSE \/ /\ ~stdin_lost
             /\ written' = Append(written, rq)
             /\ pending' = IF child = "running"
                           THEN Append(pending, Len(written) + 1) ELSE pending
             /\ req' = [req EXCEPT ![t] = Len(written) + 1]
             /\ overlapped' = (overlapped \/ Awaited)
             /\ UNCHANGED stdin_lost
             /\ \/ /\ ~Draining
                   /\ readline(t)
                \/ /\ Draining \/ (child = "running" /\ rq.method = "tools/call")
                   /\ pc' = [pc EXCEPT ![t] = "sr_drain"]
                   /\ ret' = [ret EXCEPT ![t] = NoRet]
                   /\ UNCHANGED <<stdout, waiter>>
          \/ /\ child = "exited"
             /\ stdin_lost' = TRUE
             /\ Return(t, Ret("write_error", NoLine))
             /\ req' = [req EXCEPT ![t] = 0]
             /\ UNCHANGED <<written, pending, stdout, waiter, overlapped>>

\* client.py 55-56: the child reads its stdin, the write buffer empties and
\* drain returns (to the tasks in the order they wrote), on into readline;
\* or the child has exited, the transport loses the pipe and drain raises.
drain(t) ==
  /\ Quiet
  /\ pc[t] = "sr_drain"
  /\ \/ /\ child = "running"
        /\ \A u \in Tasks : pc[u] = "sr_drain" => req[t] <= req[u]
        /\ readline(t)
        /\ UNCHANGED stdin_lost
     \/ /\ child = "exited"
        /\ stdin_lost' = TRUE
        /\ Return(t, Ret("write_error", NoLine))
        /\ UNCHANGED <<stdout, waiter>>
  /\ UNCHANGED <<server_process, tools, childVars, written, pending, ctx, req, result, arguments,
                 mainVars, calls, overlapped>>

\* client.py 56-57: the suspended task is woken by a line, or by end of stream
WaitDone(t) ==
  /\ Quiet
  /\ pc[t] = "sr_wait"
  /\ \/ \E b \in Bodies : TakeLine(t, b)
     \/ /\ stdout = <<>>
        /\ child = "exited"
        /\ Return(t, Ret("eof", NoLine))
        /\ UNCHANGED stdout
  /\ waiter' = NoTask
  /\ UNCHANGED <<server_process, tools, childVars, written, pending, stdin_lost, ctx,
                 req, result, arguments, mainVars, calls, overlapped>>

\* client.py 56, 58-60: no line within timeout=5.0: asyncio.TimeoutError, {}
WaitTimeout(t) ==
  /\ Quiet
  /\ pc[t] = "sr_wait"
  /\ stdout = <<>>
  /\ child = "running"
  /\ Return(t, Ret("timeout", NoLine))
  /\ waiter' = NoTask
  /\ UNCHANGED <<server_process, tools, childVars, written, pending, stdout,
                 stdin_lost, ctx, req, result, arguments, mainVars, calls, overlapped>>

\* ------------------------------------------------------------ tool registry
\* self.tools[tool["name"]] = tool on a dict: a new key is appended, an
\* existing key keeps its place and takes the new value.
\* faulty variant of DictSet: an existing key keeps the value it has
DictSet_keep(d, tool) ==
  IF \E i \in 1..Len(d) : d[i].name = tool.name
  THEN d
  ELSE Append(d, tool)

DictSet(d, tool) ==
  IF \E i \in 1..Len(d) : d[i].name = tool.name
  THEN [i \in 1..Len(d) |-> IF d[i].name = tool.name THEN tool ELSE d[i]]
  ELSE Append(d, tool)

RECURSIVE Populate(_, _)
Populate(d, L) == IF L = <<>> THEN d ELSE Populate(DictSet(d, Head(L)), Tail(L))

\* client.py 77-78: the catalog chat_with_ollama builds from self.tools.items()
tools_desc(d) == [i \in 1..Len(d) |-> <<d[i].name, d[i].description>>]

\* client.py 43-45: the tools looped over; None.get raises AttributeError
ToolsRaises(resp) == resp.shape = "scalar"
ToolsOf(resp) == IF resp.shape = "tools" THEN resp.tools ELSE <<>>

\* ------------------------------------------------------------ start / handshake
Msg(m, e) == [msg |-> m, err |-> e]

\* client.py 18-23: create_subprocess_exec; it raises when the executable
\* cannot be launched, which main's `except Exception` prints.
start_mcp_server ==
  /\ Quiet
  /\ pc[Main] = "m_start"
  /\ \/ /\ server_process' = "proc"
        /\ child' = "running"
        /\ pc' = [pc EXCEPT ![Main] = "m_init"]
        /\ UNCHANGED printed
     \/ /\ printed' = Append(printed, Msg("Error", "spawn"))
        /\ pc' = [pc EXCEPT ![Main] = "m_cleanup"]
        /\ UNCHANGED <<server_process, child>>
  /\ UNCHANGED <<tools, exitcode, errbytes, returncode, termSent, pipeVars, ctx, req,
                 ret, result, arguments, hs, cleaned, calls, overlapped>>

InitRequest == Request(InitId, "initialize", "", <<>>)
ListRequest == Request(ListId, "tools/list", "", <<>>)

\* faulty variant of initialize_connection: both handshake requests are
\* written before any response is awaited
initialize_connection_unawaited ==
  /\ pc[Main] = "m_init"
  /\ written' = written \o <<InitRequest, ListRequest>>
  /\ pending' = pending \o <<Len(written) + 1, Len(written) + 2>>
  /\ req' = [req EXCEPT ![Main] = Len(written) + 1]
  /\ ctx' = [ctx EXCEPT ![Main] = "initialize"]
  /\ waiter' = Main
  /\ pc' = [pc EXCEPT ![Main] = "sr_wait"]
  /\ UNCHANGED <<server_process, tools, childVars, stdout, stdin_lost, ret, result, arguments,
                 mainVars, calls, overlapped>>

\* client.py 24, 29-37: start_mcp_server goes on into _initialize_connection
\* and the initialize request is sent
initialize_connection ==
  /\ pc[Main] = "m_init"
  /\ send_request(Main, InitRequest)
  /\ UNCHANGED <<server_process, tools, childVars, result, arguments, mainVars, calls>>

\* client.py 37-41: _send_request(init_request) has returned, its value is
\* dropped and the tools/list request is sent
initialize_connection_list ==
  /\ pc[Main] = "sr_ret"
  /\ ctx[Main] = "initialize"
  /\ hs' = Append(hs, ret[Main].kind)
  /\ send_request(Main, ListRequest)
  /\ UNCHANGED <<server_process, tools, childVars, result, arguments, printed, cleaned, calls>>

\* client.py 43-45, then main 155-160: the registry is filled from the
\* tools/list response, start_mcp_server returns and main looks at returncode.
initialize_connection_tools ==
  /\ pc[Main] = "sr_ret"
  /\ ctx[Main] = "tools/list"
  /\ hs' = Append(hs, ret[Main].kind)
  /\ LET response == Returned(ret[Main]) IN
     IF response # Empty /\ HasResult(response) /\ ToolsRaises(response)
     THEN /\ printed' = Append(printed, Msg("Error", "AttributeError"))
          /\ pc' = [pc EXCEPT ![Main] = "m_cleanup"]
          /\ UNCHANGED tools
     ELSE /\ tools' = IF response # Empty /\ HasResult(response)
                      THEN Populate(tools, ToolsOf(response)) ELSE tools
          /\ IF returncode # <<>>
             THEN /\ printed' = Append(printed, Msg("Server exited", errbytes))
                  /\ pc' = [pc EXCEPT ![Main] = "m_cleanup"]
             ELSE /\ printed' = Append(printed, Msg("Connected to MCP server!", ""))
                  /\ pc' = [pc EXCEPT ![Main] = "m_ollama"]
  /\ ret' = [ret EXCEPT ![Main] = NoRet]
  /\ req' = [req EXCEPT ![Main] = 0]
  /\ ctx' = [ctx EXCEPT ![Main] = ""]
  /\ UNCHANGED <<server_process, childVars, pipeVars, result, arguments, cleaned, calls, overlapped>>

\* ------------------------------------------------------------ call_tool
\* client.py 73: response["result"]["content"][0]["text"] if response and
\* "result" in response else "Error calling tool"
\* faulty variant of call_tool_value: the empty mapping is indexed like any
\* other response
call_tool_value_unguarded(response) ==
  IF response = Empty THEN Res("raised", "KeyError")
  ELSE IF ~HasResult(response) THEN Res("returned", Sentinel)
  ELSE CASE response.shape = "text"      -> Res("returned", response.text)
         [] response.shape = "empty"     -> Res("raised", "IndexError")
         [] response.shape = "scalar"    -> Res("raised", "TypeError")
         [] OTHER                        -> Res("raised", "KeyError")

\* faulty variant of call_tool_value: every response with a result is read
\* as a failed call
call_tool_value_sentinel(response) ==
  IF response = Empty \/ ~HasResult(response) THEN Res("returned", Sentinel)
  ELSE CASE response.shape = "text"      -> Res("returned", Sentinel)
         [] response.shape = "empty"     -> Res("raised", "IndexError")
         [] response.shape = "scalar"    -> Res("raised", "TypeError")
         [] OTHER                        -> Res("raised", "KeyError")

call_tool_value(response) ==
  IF response = Empty \/ ~HasResult(response) THEN Res("returned", Sentinel)
  ELSE CASE response.shape = "text"      -> Res("returned", response.text)
         [] response.shape = "empty"     -> Res("raised", "IndexError")
         [] response.shape = "scalar"    -> Res("raised", "TypeError")
         [] OTHER                        -> Res("raised", "KeyError")

\* client.py 67-72: a caller task enters call_tool; the request is built and sent
call_tool(t, n, a) ==
  /\ Quiet
  /\ pc[t] = "idle"
  /\ calls < MaxCalls
  /\ calls' = calls + 1
  /\ result' = [result EXCEPT ![t] = NoRes]
  /\ arguments' = [arguments EXCEPT ![t] = Call(n, a)]
  /\ send_request(t, Request(CallId, "tools/call", n, a))
  /\ UNCHANGED <<server_process, tools, childVars, mainVars>>

\* faulty variant of call_tool_return: the tool that was called is entered
\* into the registry
call_tool_return_registering(t) ==
  /\ pc[t] = "sr_ret"
  /\ ctx[t] = "tools/call"
  /\ result' = [result EXCEPT ![t] = Outcome(call_tool_value(Returned(ret[t])), ret[t].kind)]
  /\ tools' = DictSet(tools, Tool(arguments[t].tool_name, ""))
  /\ pc' = [pc EXCEPT ![t] = "idle"]
  /\ ret' = [ret EXCEPT ![t] = NoRet]
  /\ req' = [req EXCEPT ![t] = 0]
  /\ ctx' = [ctx EXCEPT ![t] = ""]
  /\ UNCHANGED <<server_process, childVars, pipeVars, arguments, mainVars, calls,
                 overlapped>>

\* client.py 72-73: _send_request has returned to call_tool
call_tool_return(t) ==
  /\ pc[t] = "sr_ret"
  /\ ctx[t] = "tools/call"
  /\ result' = [result EXCEPT ![t] = Outcome(call_tool_value(Returned(ret[t])), ret[t].kind)]
  /\ pc' = [pc EXCEPT ![t] = "idle"]
  /\ ret' = [ret EXCEPT ![t] = NoRet]
  /\ req' = [req EXCEPT ![t] = 0]
  /\ ctx' = [ctx EXCEPT ![t] = ""]
  /\ UNCHANGED <<server_process, tools, childVars, pipeVars, arguments, mainVars, calls,
                 overlapped>>

\* ------------------------------------------------------------ main after start
\* client.py 163-170: the test request to the model backend; main returns
\* when it fails and enters chat_loop when it succeeds
main_test_backend(ok) ==
  /\ Quiet
  /\ pc[Main] = "m_ollama"
  /\ pc' = [pc EXCEPT ![Main] = IF ok THEN "m_loop" ELSE "m_cleanup"]
  /\ UNCHANGED <<server_process, tools, childVars, pipeVars, ctx, req, ret, result, arguments,
                 mainVars, calls, overlapped>>

\* client.py 125-140: one round of chat_loop; quit, or KeyboardInterrupt at
\* input(), leaves the loop
chat_loop(quit) ==
  /\ Quiet
  /\ pc[Main] = "m_loop"
  /\ pc' = [pc EXCEPT ![Main] = IF quit THEN "m_cleanup" ELSE "m_loop"]
  /\ UNCHANGED <<server_process, tools, childVars, pipeVars, ctx, req, ret, result, arguments,
                 mainVars, calls, overlapped>>

\* main is cancelled (user interrupt) while suspended in an await of the try
\* body: CancelledError passes `except Exception` and reaches the finally.
Interrupt ==
  /\ Quiet
  /\ pc[Main] \in {"sr_drain", "sr_wait", "m_ollama", "m_loop"}
  /\ pc' = [pc EXCEPT ![Main] = "m_cleanup"]
  /\ waiter' = IF waiter = Main THEN NoTask ELSE waiter
  /\ ret' = [ret EXCEPT ![Main] = NoRet]
  /\ req' = [req EXCEPT ![Main] = 0]
  /\ ctx' = [ctx EXCEPT ![Main] = ""]
  /\ UNCHANGED <<server_process, tools, childVars, written, pending, stdout, stdin_lost,
                 result, arguments, mainVars, calls, overlapped>>

\* faulty variant of cleanup: the child is signalled and cleanup returns
\* without waiting for its exit
cleanup_no_wait ==
  /\ Quiet
  /\ pc[Main] = "m_cleanup"
  /\ cleaned' = TRUE
  /\ termSent' = (termSent \/ (server_process # "None" /\ returncode = <<>>))
  /\ pc' = [pc EXCEPT ![Main] = "done"]
  /\ UNCHANGED <<server_process, tools, child, exitcode, errbytes, returncode, pipeVars,
                 ctx, req, ret, result, arguments, hs, printed, calls, overlapped>>

\* client.py 142-145 (from main's finally, 173-174): terminate() when there is
\* a process.  On a process whose exit asyncio has already handled, terminate
\* does nothing while the transport still holds the process, and raises
\* ProcessLookupError once the transport is finished (all pipes closed): the
\* exception leaves cleanup and main, and asyncio.run prints the traceback.
cleanup ==
  /\ Quiet
  /\ pc[Main] = "m_cleanup"
  /\ cleaned' = TRUE
  /\ IF server_process = "None"
     THEN /\ pc' = [pc EXCEPT ![Main] = "done"]
          /\ UNCHANGED <<termSent, printed>>
     ELSE IF returncode # <<>>
     THEN /\ \/ /\ pc' = [pc EXCEPT ![Main] = "m_wait"]
                /\ UNCHANGED printed
             \/ /\ pc' = [pc EXCEPT ![Main] = "done"]
                /\ printed' = Append(printed, Msg("Traceback", "ProcessLookupError"))
          /\ UNCHANGED termSent
     ELSE /\ termSent' = TRUE
          /\ pc' = [pc EXCEPT ![Main] = "m_wait"]
          /\ UNCHANGED printed
  /\ UNCHANGED <<server_process, tools, child, exitcode, errbytes, returncode, pipeVars,
                 ctx, req, ret, result, arguments, hs, calls, overlapped>>

\* client.py 146: await server_process.wait() returns once the exit is known
cleanup_wait ==
  /\ Quiet
  /\ pc[Main] = "m_wait"
  /\ returncode # <<>>
  /\ pc' = [pc EXCEPT ![Main] = "done"]
  /\ UNCHANGED <<server_process, tools, childVars, pipeVars, ctx, req, ret, result, arguments,
                 mainVars, calls, overlapped>>

\* ------------------------------------------------------------ specification
Next ==
  \/ start_mcp_server
  \/ initialize_connection
  \/ initialize_connection_list
  \/ initialize_connection_tools
  \/ \E t \in Callers, n \in ToolNames, a \in Arguments : call_tool(t, n, a)
  \/ \E t \in Callers : call_tool_return(t)
  \/ \E t \in Tasks : drain(t)
  \/ \E t \in Tasks : WaitDone(t)
  \/ \E t \in Tasks : WaitTimeout(t)
  \/ \E ok \in BOOLEAN : main_test_backend(ok)
  \/ \E quit \in BOOLEAN : chat_loop(quit)
  \/ Interrupt
  \/ cleanup
  \/ cleanup_wait
  \/ ChildRespond
  \/ \E x \in ChildExits : ChildExit(x[1], x[2])
  \/ ChildTerminated
  \/ ExitNoticed

Spec == Init /\ [][Next]_vars

\* What the event loop guarantees: a task that is ready to run is run, data
\* or end of stream on stdout wakes the reader, the loss of the stdin pipe
\* wakes the writer, and the timer of wait_for fires.  Nothing makes the child
\* read its stdin, answer or exit, and nothing makes the user type or call.
Scheduled ==
  \/ initialize_connection
  \/ initialize_connection_list
  \/ initialize_connection_tools
  \/ \E t \in Callers : call_tool_return(t)
  \/ \E t \in Tasks : child = "exited" /\ drain(t)
  \/ \E t \in Tasks : WaitDone(t)
  \/ \E t \in Tasks : WaitTimeout(t)

LiveSpec == Spec /\ WF_vars(Scheduled)

\* ------------------------------------------------------------ the request line
\* client.py 53-54: json.dumps(request) + "\n".  Text is spelled out here as
\* the sequence of its characters; the punctuation json.dumps puts between
\* values (", " and ": ", no line break), the id's digits and the literals of
\* the code are each kept as one element.
IdText(i) == CASE i = InitId -> "1" [] i = ListId -> "2" [] OTHER -> "3"

\* faulty variant of EscapeChar: a line feed is written as it is
EscapeChar_raw(c) ==
  CASE c = "\"" -> <<"\\", "\"">>
    [] c = "\\" -> <<"\\", "\\">>
    [] OTHER    -> <<c>>

\* json.dumps of one character of a str
EscapeChar(c) ==
  CASE c = "\n" -> <<"\\", "n">>
    [] c = "\"" -> <<"\\", "\"">>
    [] c = "\\" -> <<"\\", "\\">>
    [] OTHER    -> <<c>>

RECURSIVE Escape(_)
Escape(str) == IF str = <<>> THEN <<>> ELSE EscapeChar(Head(str)) \o Escape(Tail(str))

dumps_str(str) == <<"\"">> \o Escape(str) \o <<"\"">>

RECURSIVE dumps_items(_)
dumps_items(a) ==
  IF a = <<>> THEN <<>>
  ELSE dumps_str(a[1][1]) \o <<": ">> \o dumps_str(a[1][2])
       \o (IF Len(a) > 1 THEN <<", ">> ELSE <<>>) \o dumps_items(Tail(a))

\* the params of the two handshake requests are literals of the code
ParamsText(m) == IF m = "initialize" THEN "{\"protocolVersion\": ...}" ELSE "{}"

dumps(rq) ==
  <<"{\"jsonrpc\": \"2.0\", \"id\": ", IdText(rq.id), ", \"method\": ", "\"", rq.method, "\"",
    ", \"params\": ">>
  \o (IF rq.method = "tools/call"
      THEN <<"{\"name\": ">> \o dumps_str(rq.name) \o <<", \"arguments\": ", "{">>
           \o dumps_items(rq.arguments) \o <<"}", "}">>
      ELSE <<ParamsText(rq.method)>>)
  \o <<"}">>

request_json(rq) == dumps(rq) \o <<"\n">>

\* The reader at the other end of the pipe: readline() takes the bytes up to
\* and with the first line feed, strip() drops it, json.loads parses (as
\* client.py 56-57 does with the response).
RECURSIVE first_line(_)
first_line(bytes) ==
  IF bytes = <<>> THEN <<>>
  ELSE IF Head(bytes) = "\n" THEN <<"\n">>
  ELSE <<Head(bytes)>> \o first_line(Tail(bytes))

strip(line) ==
  IF line # <<>> /\ line[Len(line)] = "\n" THEN SubSeq(line, 1, Len(line) - 1) ELSE line

At(w, p) == IF p \in 1..Len(w) THEN w[p] ELSE ""

Unescape(c) == IF c = "n" THEN "\n" ELSE c

\* json.loads inside a string literal, from position p: the characters read
\* and the position after the closing quote (0: the text is not JSON)
RECURSIVE scan_str(_, _, _)
scan_str(w, p, acc) ==
  IF p > Len(w) \/ w[p] = "\n" THEN <<acc, 0>>
  ELSE IF w[p] = "\"" THEN <<acc, p + 1>>
  ELSE IF w[p] = "\\"
       THEN IF p + 1 > Len(w) THEN <<acc, 0>>
            ELSE scan_str(w, p + 2, Append(acc, Unescape(w[p + 1])))
  ELSE scan_str(w, p + 1, Append(acc, w[p]))

loads_str(w, p) == IF At(w, p) = "\"" THEN scan_str(w, p + 1, <<>>) ELSE <<<<>>, 0>>

\* the items of an object, from position p after its opening brace
RECURSIVE loads_items(_, _, _)
loads_items(w, p, acc) ==
  IF At(w, p) = "}" THEN <<acc, p + 1>>
  ELSE LET k == loads_str(w, p) IN
       IF k[2] = 0 \/ At(w, k[2]) # ": " THEN <<acc, 0>>
       ELSE LET v == loads_str(w, k[2] + 1) IN
            IF v[2] = 0 THEN <<acc, 0>>
            ELSE IF At(w, v[2]) = ", "
                 THEN loads_items(w, v[2] + 1, Append(acc, <<k[1], v[1]>>))
                 ELSE IF At(w, v[2]) = "}"
                      THEN <<Append(acc, <<k[1], v[1]>>), v[2] + 1>>
                      ELSE <<acc, 0>>

JSONDecodeError == Request(0, "JSONDecodeError", "", <<>>)

loads(w) ==
  LET m == loads_str(w, 4) IN
  IF \/ At(w, 1) # "{\"jsonrpc\": \"2.0\", \"id\": "
     \/ At(w, 2) \notin {"1", "2", "3"}
     \/ At(w, 3) # ", \"method\": "
     \/ m[2] = 0 \/ Len(m[1]) # 1
     \/ At(w, m[2]) # ", \"params\": "
  THEN JSONDecodeError
  ELSE LET i == CHOOSE j \in {InitId, ListId, CallId} : IdText(j) = w[2]
           q == m[2] + 1
       IN IF m[1][1] = "tools/call"
          THEN LET n == loads_str(w, q + 1) IN
               IF At(w, q) # "{\"name\": " \/ n[2] = 0
                  \/ At(w, n[2]) # ", \"arguments\": " \/ At(w, n[2] + 1) # "{"
               THEN JSONDecodeError
               ELSE LET a == loads_items(w, n[2] + 2, <<>>) IN
                    IF a[2] = 0 \/ At(w, a[2]) # "}" \/ At(w, a[2] + 1) # "}"
                       \/ Len(w) # a[2] + 1
                    THEN JSONDecodeError
                    ELSE Request(i, m[1][1], n[1], a[1])
          ELSE IF At(w, q) = ParamsText(m[1][1]) /\ At(w, q + 1) = "}" /\ Len(w) = q + 1
               THEN Request(i, m[1][1], "", <<>>)
               ELSE JSONDecodeError

\* tool names and arguments with line feeds, quotes and backslashes in them
WireNames == {<<"a">>, <<"a", "\n", "n">>, <<"\\", "n", "\"">>}
WireArguments ==
  { <<>>,
    << << <<"a">>, <<"\n">> >>, << <<"n", "\n">>, <<"\\", "\\", "\"", "a">> >> >> }

\* ------------------------------------------------------------ a connected client
\* The client as start_mcp_server leaves it when the child answered both
\* handshake requests in time and main has gone on to the chat: from here,
\* calls of call_tool with any of CallNames and CallArguments.
Connected ==
  /\ server_process = "proc"
  /\ tools \in {Populate(<<>>, L) : L \in ServedToolLists}
  /\ child = "running"
  /\ exitcode = 0
  /\ errbytes = ""
  /\ returncode = <<>>
  /\ termSent = FALSE
  /\ written = <<InitRequest, ListRequest>>
  /\ pending = <<>>
  /\ stdout = <<>>
  /\ stdin_lost = FALSE
  /\ waiter = NoTask
  /\ pc = [t \in Tasks |-> IF t = Main THEN "m_loop" ELSE "idle"]
  /\ ctx = [t \in Tasks |-> ""]
  /\ req = [t \in Tasks |-> 0]
  /\ ret = [t \in Tasks |-> NoRet]
  /\ result = [t \in Tasks |-> NoRes]
  /\ arguments = [t \in Tasks |-> NoCall]
  /\ hs = <<"line", "line">>
  /\ printed = <<Msg("Connected to MCP server!", "")>>
  /\ cleaned = FALSE
  /\ calls = 0
  /\ overlapped = FALSE

CallNext ==
  \/ \E t \in Callers, n \in CallNames, a \in CallArguments : call_tool(t, n, a)
  \/ \E t \in Callers : call_tool_return(t)
  \/ \E t \in Callers : drain(t)
  \/ \E t \in Callers : WaitDone(t)
  \/ \E t \in Callers : WaitTimeout(t)
  \/ ChildRespond
  \/ \E x \in ChildExits : ChildExit(x[1], x[2])

CallSpec == Connected /\ [][CallNext]_vars

\* the same client, called with the names and arguments of WireNames and
\* WireArguments
WireNext ==
  \/ \E t \in Callers, n \in WireNames, a \in WireArguments : call_tool(t, n, a)
  \/ \E t \in Callers : call_tool_return(t)
  \/ \E t \in Callers : drain(t)
  \/ \E t \in Callers : WaitDone(t)
  \/ \E t \in Callers : WaitTimeout(t)
  \/ ChildRespond

WireSpec == Connected /\ [][WireNext]_vars

\* ------------------------------------------------------------ session states
\* The specification's session states, read off the client's state.
HandshakeDone   == Len(hs) = 2
HandshakeFailed == \E i \in 1..Len(hs) : hs[i] # "line"
HandshakeOK     == HandshakeDone /\ ~HandshakeFailed
\* Ready: both handshake responses were received and main has not begun to shut down
SessionReady    == HandshakeOK /\ pc[Main] \in {"m_ollama", "m_loop"}

HasPrinted(m)   == \E i \in 1..Len(printed) : printed[i].msg = m
\* this step writes a request of method m to the child
Writes(m)       == Len(written') = Len(written) + 1 /\ written'[Len(written')].method = m
\* the session is used as the specification prescribes: requests were sent
\* strictly one after the other, and main has not begun to shut down
InOrderUse      == ~overlapped /\ pc[Main] \notin {"m_cleanup", "m_wait", "done"}
\* the ways _send_request ends on a closed transport
Closed          == {"eof", "write_error"}

\* ------------------------------------------------------------ C1
\* C1: in a run whose requests are sent one after the other (handshake steps
\* and call_tool calls, before shutdown), a response line is only ever
\* returned as the result of the request it answers: whenever
\* _send_request hands a task a parsed line, that line is the child's answer
\* to the request this very call wrote.
C1_ResponseAttributedToItsRequest ==
  InOrderUse =>
    \A t \in Tasks : (pc[t] = "sr_ret" /\ ret[t].kind = "line") => ret[t].line.req = req[t]

\* ------------------------------------------------------------ C2
\* C2: once a call_tool issued in Ready has timed out, the session has left
\* Ready: no later call_tool writes a request on it.
C2_TimeoutLeavesReady ==
  [][(SessionReady /\ \E t \in Callers : result[t].why = "timeout")
       => ~Writes("tools/call")]_vars

\* ------------------------------------------------------------ C3
\* C3: in a run whose requests are sent one after the other (before
\* shutdown), a response line whose id differs from the id of the outstanding request is never handed
\* back as that request's response.
C3_MismatchingIdRejected ==
  InOrderUse =>
    \A t \in Tasks : (pc[t] = "sr_ret" /\ ret[t].kind = "line" /\ req[t] > 0)
                       => ret[t].line.id = written[req[t]].id

\* ------------------------------------------------------------ C4
\* C4: when a handshake step has failed (timeout, unparseable line, closed
\* transport), main never reports the session connected and never goes on to
\* use it.
C4_HandshakeFailureIsFatal ==
  HandshakeFailed => (~HasPrinted("Connected to MCP server!")
                      /\ pc[Main] \notin {"m_ollama", "m_loop"})

\* ------------------------------------------------------------ C5
\* C5: tools/list is written only after initialize was written and after the
\* wait for the initialize response has ended; main never waits for the
\* initialize response while tools/list is already on the wire.
C5_HandshakeInOrder ==
  \A i \in 1..Len(written) :
    written[i].method = "tools/list" =>
      /\ \E j \in 1..(i - 1) : written[j].method = "initialize"
      /\ Len(hs) >= 1
      /\ ~(pc[Main] = "sr_wait" /\ ctx[Main] = "initialize")

\* the handshake got as far as tools/list after the initialize wait timed out
C5_Witness ==
  /\ Len(hs) >= 1 /\ hs[1] = "timeout"
  /\ \E i \in 1..Len(written) : written[i].method = "tools/list"
  /\ pc[Main] = "sr_wait" /\ ctx[Main] = "tools/list"

\* ------------------------------------------------------------ C6
\* C6: a tools/call request is written to the child only in state Ready.
C6_CallOnlyWhenReady ==
  [][Writes("tools/call") => SessionReady]_vars

C8_MissingContentGivesSentinel ==
  [][\A t \in Callers :
       (/\ SessionReady /\ InOrderUse
        /\ pc[t] = "sr_ret" /\ ctx[t] = "tools/call"
        /\ ret[t].kind = "line" /\ ret[t].line.req = req[t]
        /\ ret[t].line.shape \in {"empty", "nocontent"}
        /\ pc'[t] = "idle")
       => result'[t] = Outcome(Res("returned", Sentinel), "line")]_vars

\* ------------------------------------------------------------ C9
\* C9: a call_tool in Ready that finds the transport closed (write fails, or
\* end of stream is read) fails with TransportClosedError instead of returning
\* the ordinary failed-call text.
C9_ClosedTransportIsFatal ==
  \A t \in Callers :
    (HandshakeOK /\ result[t].why \in Closed)
      => result[t] = Outcome(Res("raised", "TransportClosedError"), result[t].why)

\* ------------------------------------------------------------ C10
\* C10: when the child has exited with non-zero status before the handshake
\* completed, main reports the failed start together with the child's stderr.
C10_StartFailureShowsStderr ==
  (/\ HandshakeDone
   /\ \E i \in 1..2 : hs[i] \in Closed
   /\ child = "exited" /\ exitcode > 0
   /\ pc[Main] # "sr_ret")
    => \E i \in 1..Len(printed) : printed[i] = Msg("Server exited", errbytes)

\* ------------------------------------------------------------ C11
\* C11: no request is written to the child while a task is still suspended
\* waiting for the response to an earlier request: at most one request is
\* awaiting a response at any time.
C11_SingleFlight ==
  [][Len(written') > Len(written) => ~Awaited]_vars

\* ------------------------------------------------------------ C12
\* C12: every _send_request that a call_tool has entered on a Ready session
\* whose requests were sent one after the other eventually returns, whether
\* it is in its write/flush phase or in its read phase.
C12_SendReceiveReturns ==
  \A t \in Callers :
    (SessionReady /\ ~overlapped /\ pc[t] \in {"sr_drain", "sr_wait"})
      ~> (pc[t] = "sr_ret")

\* ------------------------------------------------------------ C13
\* C13: cleanup on a session whose child has already exited on its own does
\* not raise: when main has found the child exited after the handshake, it
\* does not end with an exception out of cleanup.
C13_CleanupAfterExitDoesNotRaise ==
  HasPrinted("Server exited") => ~HasPrinted("Traceback")

\* ------------------------------------------------------------ C14
\* C14: once a call_tool on a Ready session whose requests were sent one
\* after the other has read a line that does not parse, the session is
\* invalid: no request is written to the child any more.
ParseFailed == \E t \in Callers : result[t].why = "parse_error"

C14_UnparseableLineInvalidates ==
  [][(SessionReady /\ ~overlapped /\ ParseFailed) => Len(written') = Len(written)]_vars

\* ------------------------------------------------------------ C15
\* C15: when the line _send_request gives call_tool has result.content[0].text,
\* call_tool returns exactly that text, and the request this call wrote has
\* method tools/call and the name and arguments the call was given.
C15_CallToolReturnsText ==
  [][\A t \in Callers :
       (/\ pc[t] = "sr_ret" /\ pc'[t] = "idle"
        /\ ret[t].kind = "line" /\ ret[t].line.shape = "text")
       => /\ result'[t].kind = "returned"
          /\ result'[t].text = ret[t].line.text
          /\ written[req[t]].method = "tools/call"
          /\ written[req[t]].name = arguments[t].tool_name
          /\ written[req[t]].arguments = arguments[t].arguments]_vars

\* call_tool("divide", {a: 7, b: 0}) has returned the text "5" of its response
C15_Witness ==
  \E t \in Callers :
    /\ pc[t] = "idle"
    /\ arguments[t] = Call("divide", Args(7, 0))
    /\ result[t] = Outcome(Res("returned", "5"), "line")

\* ------------------------------------------------------------ C16
\* C16: when the handshake's tools/list response carries the tool sequence L,
\* the registry afterwards holds exactly the names of L, each name once, with
\* the last entry of L of that name, in the order in which the names first
\* occur in L; for L = [add: "Add two numbers"] the catalog is exactly
\* [("add", "Add two numbers")].
FirstAt(L, n) == CHOOSE j \in 1..Len(L) : L[j].name = n /\ \A k \in 1..(j - 1) : L[k].name # n
LastAt(L, n)  == CHOOSE j \in 1..Len(L) : L[j].name = n /\ \A k \in (j + 1)..Len(L) : L[k].name # n

RegistryOf(d, L) ==
  /\ {d[i].name : i \in 1..Len(d)} = {L[j].name : j \in 1..Len(L)}
  /\ \A i, k \in 1..Len(d) : i # k => d[i].name # d[k].name
  /\ \A i \in 1..Len(d) : d[i] = L[LastAt(L, d[i].name)]
  /\ \A i, k \in 1..Len(d) : i < k => FirstAt(L, d[i].name) < FirstAt(L, d[k].name)
  /\ L = <<Tool("add", "Add two numbers")>> => tools_desc(d) = <<<<"add", "Add two numbers">>>>

C16_RegistryFromToolList ==
  [][(/\ pc[Main] = "sr_ret" /\ ctx[Main] = "tools/list"
      /\ ret[Main].kind = "line" /\ ret[Main].line.shape = "tools")
     => RegistryOf(tools', ret[Main].line.tools)]_vars

\* the handshake is over and the registry was filled from a list that names
\* add twice
C16_Witness ==
  /\ HandshakeDone
  /\ tools = <<Tool("add", "Add again"), Tool("subtract", "Subtract b from a")>>

\* ------------------------------------------------------------ C17
\* C17: once the handshake has completed, no step changes the tool registry.
C17_RegistryFrozenAfterHandshake ==
  [][HandshakeDone => tools' = tools]_vars

\* after the handshake filled the registry, a call_tool has ended, and main
\* has gone through the chat and cleanup to its end
C17_Witness ==
  /\ HandshakeDone
  /\ tools # <<>>
  /\ \E t \in Callers : pc[t] = "idle" /\ result[t].why = "line"
  /\ pc[Main] = "done"

\* ------------------------------------------------------------ C18
\* C18: the id of every tools/call request differs from the id of every
\* request written before it in the session.
C18_CallIdsAreFresh ==
  \A i, j \in 1..Len(written) :
    (i < j /\ written[j].method = "tools/call") => written[i].id # written[j].id

\* ------------------------------------------------------------ C19
\* C19: for every request written, the bytes handed to the child's stdin are
\* one line: they hold exactly one line feed, as their last character, and a
\* reader that takes one line and parses it gets a request equal to the one
\* written, whatever line feeds, quotes and backslashes its tool name and
\* argument values hold.
C19_RequestIsOneLineAndRoundTrips ==
  \A i \in 1..Len(written) :
    LET bytes == request_json(written[i]) IN
    /\ bytes[Len(bytes)] = "\n"
    /\ \A k \in 1..(Len(bytes) - 1) : bytes[k] # "\n"
    /\ loads(strip(first_line(bytes))) = written[i]

\* a tools/call whose name and argument values hold line feeds was written
\* and answered
C19_Witness ==
  \E i \in 1..Len(written) :
    /\ written[i].method = "tools/call"
    /\ written[i].name = <<"a", "\n", "n">>
    /\ written[i].arguments # <<>>
    /\ \E t \in Callers : pc[t] = "idle" /\ result[t].why = "line"

\* ------------------------------------------------------------ C20
\* the ways _send_request ends without a parsed line, and the positions of a
\* task suspended inside it
Failures == {"noproc", "timeout", "eof", "parse_error", "write_error", "busy"}
InSend   == {"sr_drain", "sr_wait"}

\* C20, as stated: _send_request never raises to its caller: a task suspended
\* in _send_request leaves it only by its return.
C20_SendRequestNeverRaises ==
  [][\A t \in Tasks : pc[t] \in InSend => pc'[t] \in InSend \cup {"sr_ret"}]_vars

\* C20, amended: a task suspended in _send_request leaves it by its return
\* or by the cancellation of the task, and by nothing else; with no child
\* started it returns without writing or reading; whenever it ends without a
\* parsed line (no child, timeout, end of stream, unparseable line, write or
\* read exception) server_process and the registry are as before, and
\* call_tool then returns "Error calling tool".
C20_SendRequestSwallowsExceptions ==
  [][\A t \in Tasks :
       /\ (pc[t] \in InSend /\ pc'[t] \notin InSend \cup {"sr_ret"})
            => (t = Main /\ pc'[t] = "m_cleanup")
       /\ (pc[t] # "sr_ret" /\ pc'[t] = "sr_ret" /\ ret'[t].kind = "noproc")
            => (written' = written /\ stdout' = stdout)
       /\ (pc'[t] = "sr_ret" /\ ret'[t].kind \in Failures)
            => (server_process' = server_process /\ tools' = tools)
       /\ (t \in Callers /\ pc[t] = "sr_ret" /\ pc'[t] = "idle" /\ ret[t].kind \in Failures)
            => result'[t] = Outcome(Res("returned", Sentinel), ret[t].kind)]_vars

\* calls of call_tool have ended on a timeout and on an unparseable line
C20_Witness ==
  \E t \in Callers :
    /\ pc[t] = "idle"
    /\ result[t] \in {Outcome(Res("returned", Sentinel), w) : w \in {"timeout", "parse_error"}}
    /\ server_process = "proc"
    /\ tools # <<>>

====
